---- MODULE Spec2Model ----
(***************************************************************************)
(* cidrx: an IPv6 address pool built from fixed-size bitmap blocks.        *)
(*                                                                         *)
(* The Go code works on uint64 words and on 128-bit addresses held as two  *)
(* uint64 words (Uint128{Hi, Lo}).  The model keeps every width relation   *)
(* of the code but scales the word: a word has WordBits bits, an address   *)
(* has 2 * WordBits bits, a bitmap word holds WordBits offsets, and the    *)
(* "diff > 63" limit of NewPool is "diff > WordBits - 1".  All word        *)
(* arithmetic wraps modulo 2^WordBits exactly as uint64 arithmetic wraps   *)
(* modulo 2^64, and shifts by WordBits or more yield 0 as in Go.           *)
(***************************************************************************)
EXTENDS Integers, Sequences, FiniteSets, TLC

VARIABLES
    pool,       \* the *Pool returned by NewPool (NilPool before / on error)
    newErr,     \* the error NewPool returned
    cfg,        \* the arguments NewPool was called with
    phase,      \* "new" before NewPool is called, "ready" or "failed" after
    held,       \* addresses returned by Allocate and not successfully released since
    returned,   \* every address Allocate has returned so far
    last,       \* the last call on the pool: operation, argument, results, and
                \* the iterations its free-list loop made
    prev,       \* the call on the pool before the last one, when that was an
                \* Allocate call (NoCall otherwise)
    released,   \* whether Release has been called on the pool
    nAlloc,     \* number of Allocate calls so far
    nAllocOK,   \* number of Allocate calls that returned an address
    ops,        \* number of Allocate/Release calls so far
    snap,       \* the *Snapshot returned by pool.Snapshot() (NilSnapshot before)
    atSnap,     \* the source pool as it was at snapshot time, continued by the
                \* same calls as the restored pool
    restored,   \* the *Pool returned by NewPoolFromSnapshot(snap)
    stage,      \* "none", "taken" (snapshot exists), "restored" or "refused"
    lastR,      \* result of the last call on the restored pool
    lastS,      \* result of the same call on the continued source pool
    rops,       \* number of calls made on the restored pool
    mu,         \* p.mu: Unlocked, or the caller that holds the lock
    pc,         \* per concurrent caller: where it is in its Allocate call
    loc,        \* per concurrent caller: the locals of its Allocate call
    got,        \* per concurrent caller: the addresses its calls returned
    ncalls,     \* number of concurrent Allocate calls started so far
    block,      \* a *block made directly by newBlock, as the package's tests do
    lastB,      \* the last call on block: operation, argument, results
    bops        \* number of allocBit/releaseBit calls on block so far

poolVars == <<pool, newErr, cfg, phase, held, returned, last, prev, released, nAlloc, nAllocOK, ops>>
snapVars == <<snap, atSnap, restored, stage, lastR, lastS, rops>>
concVars == <<mu, pc, loc, got, ncalls>>
blockVars == <<block, lastB, bops>>
vars == <<poolVars, snapVars, concVars, blockVars>>

\* width of one machine word (uint64 in the source)
WordBits == 4
\* 2^WordBits: the modulus of word arithmetic
WordMod == 2 ^ WordBits
\* ipv6BitLen = net.IPv6len * 8: the width of an address (two words)
ipv6BitLen == 2 * WordBits
\* number of distinct addresses
AddrMod == 2 ^ ipv6BitLen
\* every 16-byte address, as the big-endian integer it encodes
Addresses == 0 .. (AddrMod - 1)

\* the nil error / nil net.IP / nil mask
NoErr == "nil"
NilIP == 0 - 1
NilMask == 0 - 1

\* errors.go sentinels
ErrBlockFull == "ErrBlockFull"
ErrOutOfRange == "ErrOutOfRange"
ErrNotAllocated == "ErrNotAllocated"
\* fmt.Errorf errors of Pool, named as the specification names them
InvalidAddress == "InvalidAddress"
InvalidPrefix == "InvalidPrefix"
InvalidBlockPrefix == "InvalidBlockPrefix"
TooManyBlocks == "TooManyBlocks"
PoolExhausted == "PoolExhausted"
AddressNotInPool == "AddressNotInPool"
InvalidSnapshot == "InvalidSnapshot"
\* a nil-pointer dereference (p.blocks[bi] of a missing index)
Panic == "panic"

---------------------------------------------------------------------------
(* Go's operators on words *)

\* x << k on a word: bits shifted out are lost, k >= width gives 0
shl(x, k) == IF k >= WordBits THEN 0 ELSE (x * (2 ^ k)) % WordMod
\* x >> k on a word
shr(x, k) == IF k >= WordBits THEN 0 ELSE x \div (2 ^ k)

RECURSIVE bitOr(_, _)
\* x | y
bitOr(x, y) ==
    IF x = 0 THEN y
    ELSE IF y = 0 THEN x
    ELSE (IF x % 2 = 1 \/ y % 2 = 1 THEN 1 ELSE 0) + 2 * bitOr(x \div 2, y \div 2)

RECURSIVE bitAnd(_, _)
\* x & y
bitAnd(x, y) ==
    IF x = 0 \/ y = 0 THEN 0
    ELSE (IF x % 2 = 1 /\ y % 2 = 1 THEN 1 ELSE 0) + 2 * bitAnd(x \div 2, y \div 2)

\* ^x on a word
bitNot(x) == (WordMod - 1) - x
\* x &^ y
bitAndNot(x, y) == bitAnd(x, bitNot(y))

RECURSIVE TrailingZeros64(_)
\* bits.TrailingZeros64: the index of the lowest set bit, the width for 0
TrailingZeros64(x) ==
    IF x = 0 THEN WordBits
    ELSE IF x % 2 = 1 THEN 0
    ELSE 1 + TrailingZeros64(x \div 2)

RECURSIVE OnesCount64(_)
\* bits.OnesCount64
OnesCount64(x) == IF x = 0 THEN 0 ELSE (x % 2) + OnesCount64(x \div 2)

\* bits.Add64(x, y, carry)
Add64(x, y, c) == [sum |-> (x + y + c) % WordMod, carry |-> (x + y + c) \div WordMod]
\* bits.Sub64(x, y, borrow)
Sub64(x, y, b) ==
    [diff |-> (x - y - b + 2 * WordMod) % WordMod,
     borrow |-> IF x - y - b < 0 THEN 1 ELSE 0]

---------------------------------------------------------------------------
(* Uint128: two words *)

\* binary.BigEndian.Uint64(ip[:8]) and (ip[8:]): the two halves of an address
fromIP(ip) == [Hi |-> ip \div WordMod, Lo |-> ip % WordMod]
\* Uint128.toIP: big-endian bytes of Hi then Lo
toIP(x) == x.Hi * WordMod + x.Lo

\* Uint128.add
add(x, y) ==
    LET lo == Add64(x.Lo, y.Lo, 0)
        hi == Add64(x.Hi, y.Hi, lo.carry)
    IN  [Hi |-> hi.sum, Lo |-> lo.sum]

\* Uint128.sub (wraps when y > x)
sub(x, y) ==
    LET lo == Sub64(x.Lo, y.Lo, 0)
        hi == Sub64(x.Hi, y.Hi, lo.borrow)
    IN  [Hi |-> hi.diff, Lo |-> lo.diff]

\* Uint128.lsh
lsh(x, k) ==
    IF k >= WordBits
    THEN [Hi |-> shl(x.Lo, k - WordBits), Lo |-> 0]
    ELSE [Hi |-> bitOr(shl(x.Hi, k), shr(x.Lo, WordBits - k)), Lo |-> shl(x.Lo, k)]

\* a right shift whose upper branch shifts by k, not by k - WordBits
rshWholeShift(x, k) ==
    IF k >= WordBits
    THEN [Hi |-> 0, Lo |-> shr(x.Hi, k)]
    ELSE [Hi |-> shr(x.Hi, k), Lo |-> bitOr(shr(x.Lo, k), shl(x.Hi, WordBits - k))]

\* Uint128.rsh
rsh(x, k) ==
    IF k >= WordBits
    THEN [Hi |-> 0, Lo |-> shr(x.Hi, k - WordBits)]
    ELSE [Hi |-> shr(x.Hi, k), Lo |-> bitOr(shr(x.Lo, k), shl(x.Hi, WordBits - k))]

\* net.CIDRMask(ones, bits): `ones` leading one-bits, nil when out of range
CIDRMask(ones, bits) ==
    IF ones < 0 \/ ones > bits THEN NilMask ELSE (2 ^ bits) - (2 ^ (bits - ones))
\* a base address that is used as given, not masked to its network
MaskNone(ip, mask) == ip

\* net.IP.Mask: byte-wise AND with the mask
Mask(ip, mask) == bitAnd(ip, mask)

---------------------------------------------------------------------------
(* block *)

\* newBlock
newBlock(prefix, size) ==
    LET words == ((size + (WordBits - 1)) % WordMod) \div WordBits
    IN  [prefix |-> prefix,
         used |-> [i \in 1 .. words |-> 0],
         freeCount |-> size,
         size |-> size]

RECURSIVE allocBitNoBound(_, _)
\* an allocation loop without the idx >= b.size test
allocBitNoBound(b, wi) ==
    IF wi >= Len(b.used)
    THEN [blk |-> b, idx |-> 0, err |-> ErrBlockFull]
    ELSE LET word == b.used[wi + 1]
         IN  IF bitNot(word) # 0
             THEN LET bit == TrailingZeros64(bitNot(word))
                      idx == (wi * WordBits + bit) % WordMod
                  IN  [blk |-> [b EXCEPT !.used[wi + 1] = bitOr(@, shl(1, bit)),
                                         !.freeCount = (@ - 1 + WordMod) % WordMod],
                       idx |-> idx,
                       err |-> NoErr]
             ELSE allocBitNoBound(b, wi + 1)

RECURSIVE allocBitFrom(_, _)
\* the loop of allocBit from word index wi on
allocBitFrom(b, wi) ==
    IF wi >= Len(b.used)
    THEN [blk |-> b, idx |-> 0, err |-> ErrBlockFull]
    ELSE LET word == b.used[wi + 1]
         IN  IF bitNot(word) # 0
             THEN LET bit == TrailingZeros64(bitNot(word))
                      idx == (wi * WordBits + bit) % WordMod
                  IN  IF idx >= b.size
                      THEN allocBitFrom(b, wi + 1)
                      ELSE [blk |-> [b EXCEPT !.used[wi + 1] = bitOr(@, shl(1, bit)),
                                              !.freeCount = (@ - 1 + WordMod) % WordMod],
                            idx |-> idx,
                            err |-> NoErr]
             ELSE allocBitFrom(b, wi + 1)

\* block.allocBit
allocBit(b) == allocBitFrom(b, 0)

\* a release whose range test lets the offset equal to the size through (an
\* offset past the bitmap words still fails)
releaseBitOffByOne(b, idx) ==
    IF idx > b.size \/ idx \div WordBits >= Len(b.used)
    THEN [blk |-> b, err |-> ErrOutOfRange]
    ELSE LET wi == idx \div WordBits
             bit == idx % WordBits
         IN  IF bitAnd(b.used[wi + 1], shl(1, bit)) = 0
             THEN [blk |-> b, err |-> ErrNotAllocated]
             ELSE [blk |-> [b EXCEPT !.used[wi + 1] = bitAndNot(@, shl(1, bit)),
                                     !.freeCount = (@ + 1) % WordMod],
                   err |-> NoErr]

\* a release that clears the bit and leaves freeCount as it was
releaseBitNoCount(b, idx) ==
    IF idx >= b.size
    THEN [blk |-> b, err |-> ErrOutOfRange]
    ELSE LET wi == idx \div WordBits
             bit == idx % WordBits
         IN  IF bitAnd(b.used[wi + 1], shl(1, bit)) = 0
             THEN [blk |-> b, err |-> ErrNotAllocated]
             ELSE [blk |-> [b EXCEPT !.used[wi + 1] = bitAndNot(@, shl(1, bit))],
                   err |-> NoErr]

\* block.releaseBit
releaseBit(b, idx) ==
    IF idx >= b.size
    THEN [blk |-> b, err |-> ErrOutOfRange]
    ELSE LET wi == idx \div WordBits
             bit == idx % WordBits
         IN  IF bitAnd(b.used[wi + 1], shl(1, bit)) = 0
             THEN [blk |-> b, err |-> ErrNotAllocated]
             ELSE [blk |-> [b EXCEPT !.used[wi + 1] = bitAndNot(@, shl(1, bit)),
                                     !.freeCount = (@ + 1) % WordMod],
                   err |-> NoErr]

\* an address conversion that drops the offset inside the block
bitToIPBase(b, idx) == b.prefix.IP

\* an address conversion that adds the offset to the low word and drops the
\* carry into the high word
bitToIPNoCarry(b, idx) ==
    LET h == fromIP(b.prefix.IP).Hi
        l == fromIP(b.prefix.IP).Lo
        newLow == Add64(l, idx, 0)
    IN  toIP([Hi |-> h, Lo |-> newLow.sum])

\* block.bitToIP
bitToIP(b, idx) ==
    LET h == fromIP(b.prefix.IP).Hi
        l == fromIP(b.prefix.IP).Lo
        newLow == Add64(l, idx, 0)
        newHigh == Add64(h, 0, newLow.carry)
    IN  toIP([Hi |-> newHigh.sum, Lo |-> newLow.sum])

\* an offset computed from the low words only, the high words not compared
ipToBitLowWord(b, ip) ==
    LET dL == Sub64(fromIP(ip).Lo, fromIP(b.prefix.IP).Lo, 0)
    IN  IF dL.diff >= b.size
        THEN [idx |-> 0, err |-> ErrOutOfRange]
        ELSE [idx |-> dL.diff, err |-> NoErr]

\* block.ipToBit
ipToBit(b, ip) ==
    LET h0 == fromIP(b.prefix.IP).Hi
        l0 == fromIP(b.prefix.IP).Lo
        h1 == fromIP(ip).Hi
        l1 == fromIP(ip).Lo
        dL == Sub64(l1, l0, 0)
        dH == Sub64(h1, h0, dL.borrow)
    IN  IF dH.borrow # 0 \/ dH.diff # 0
        THEN [idx |-> 0, err |-> ErrOutOfRange]
        ELSE IF dL.diff >= b.size
        THEN [idx |-> 0, err |-> ErrOutOfRange]
        ELSE [idx |-> dL.diff, err |-> NoErr]

---------------------------------------------------------------------------
(* Pool *)

\* a nil *Pool
NilPool ==
    [blockMask |-> NilMask, networkAddr |-> [Hi |-> 0, Lo |-> 0], hostBits |-> 0,
     blockSize |-> 0, blocks |-> <<>>, freeList |-> <<>>, nextBlockIndex |-> 0,
     maxBlocks |-> 0]

\* an address test without the To4 check: IPv4 addresses pass
ParseIPv6AcceptV4(netAddress) ==
    IF netAddress.kind \in {"v6", "v4"} THEN netAddress.val ELSE NilIP

\* net.ParseIP(netAddress) followed by the To16/To4 test of NewPool: an address
\* text is garbage (ParseIP = nil), an IPv4 / IPv4-mapped address (To4 # nil),
\* or an IPv6 address with its 16-byte value
ParseIPv6(netAddress) == IF netAddress.kind = "v6" THEN netAddress.val ELSE NilIP

\* NewPool.  expectedBlocks, a count >= 0, only sets the capacity of the empty
\* freeList (make([]uint64, 0, expectedBlocks)) and is left out.
NewPool(netAddress, netPrefixLen, blockPrefix) ==
    LET ip == ParseIPv6(netAddress)
    IN  IF ip = NilIP
        THEN [pool |-> NilPool, err |-> InvalidAddress]
        ELSE IF netPrefixLen < 0 \/ netPrefixLen > ipv6BitLen
        THEN [pool |-> NilPool, err |-> InvalidPrefix]
        ELSE LET mask == CIDRMask(netPrefixLen, ipv6BitLen)
                 netIP == Mask(ip, mask)
             IN  IF blockPrefix <= netPrefixLen \/ blockPrefix > ipv6BitLen
                 THEN [pool |-> NilPool, err |-> InvalidBlockPrefix]
                 ELSE LET diff == blockPrefix - netPrefixLen
                      IN  IF diff > WordBits - 1
                          THEN [pool |-> NilPool, err |-> TooManyBlocks]
                          ELSE LET maxBlocks == shl(1, diff)
                                   hBits == ipv6BitLen - blockPrefix
                                   bSize == shl(1, hBits)
                               IN  [pool |-> [blockMask |-> mask,
                                              networkAddr |-> fromIP(netIP),
                                              hostBits |-> hBits,
                                              blockSize |-> bSize,
                                              blocks |-> <<>>,
                                              freeList |-> <<>>,
                                              nextBlockIndex |-> 0,
                                              maxBlocks |-> maxBlocks],
                                    err |-> NoErr]

\* p.blocks[bi] = blk
putBlock(blocks, bi, blk) ==
    [i \in (DOMAIN blocks) \cup {bi} |-> IF i = bi THEN blk ELSE blocks[i]]

RECURSIVE allocateFromFreeListAlwaysRepush(_)
\* a free-list loop that pushes the index back after every successful
\* allocation, without looking at freeCount
allocateFromFreeListAlwaysRepush(p) ==
    IF Len(p.freeList) = 0
    THEN [pool |-> p, ip |-> NilIP, err |-> NoErr, returned |-> FALSE, iters |-> 0]
    ELSE LET bi == p.freeList[Len(p.freeList)]
             popped == [p EXCEPT !.freeList = SubSeq(@, 1, Len(@) - 1)]
         IN  IF bi \notin DOMAIN p.blocks
             THEN [pool |-> popped, ip |-> NilIP, err |-> Panic, returned |-> TRUE,
                   iters |-> 1]
             ELSE LET r == allocBit(p.blocks[bi])
                  IN  IF r.err = NoErr
                      THEN [pool |-> [popped EXCEPT
                                         !.blocks[bi] = r.blk,
                                         !.freeList = Append(@, bi)],
                            ip |-> bitToIP(r.blk, r.idx),
                            err |-> NoErr,
                            returned |-> TRUE,
                            iters |-> 1]
                      ELSE [allocateFromFreeListAlwaysRepush(popped) EXCEPT !.iters = @ + 1]

RECURSIVE allocateFromFreeListOldestFirst(_)
\* a free-list loop that takes the first (oldest) index instead of the last
allocateFromFreeListOldestFirst(p) ==
    IF Len(p.freeList) = 0
    THEN [pool |-> p, ip |-> NilIP, err |-> NoErr, returned |-> FALSE, iters |-> 0]
    ELSE LET bi == p.freeList[1]
             popped == [p EXCEPT !.freeList = Tail(@)]
         IN  IF bi \notin DOMAIN p.blocks
             THEN [pool |-> popped, ip |-> NilIP, err |-> Panic, returned |-> TRUE,
                   iters |-> 1]
             ELSE LET r == allocBit(p.blocks[bi])
                  IN  IF r.err = NoErr
                      THEN [pool |-> [popped EXCEPT
                                         !.blocks[bi] = r.blk,
                                         !.freeList = IF r.blk.freeCount > 0
                                                      THEN Append(@, bi) ELSE @],
                            ip |-> bitToIP(r.blk, r.idx),
                            err |-> NoErr,
                            returned |-> TRUE,
                            iters |-> 1]
                      ELSE [allocateFromFreeListOldestFirst(popped) EXCEPT !.iters = @ + 1]

RECURSIVE allocateFromFreeList(_)
\* the free-list loop of Allocate: pop the last index, try its block, re-push
\* the index when the block still has room, go on when the block is full;
\* iters counts the iterations the loop made
allocateFromFreeList(p) ==
    IF Len(p.freeList) = 0
    THEN [pool |-> p, ip |-> NilIP, err |-> NoErr, returned |-> FALSE, iters |-> 0]
    ELSE LET bi == p.freeList[Len(p.freeList)]
             popped == [p EXCEPT !.freeList = SubSeq(@, 1, Len(@) - 1)]
         IN  IF bi \notin DOMAIN p.blocks
             THEN [pool |-> popped, ip |-> NilIP, err |-> Panic, returned |-> TRUE,
                   iters |-> 1]
             ELSE LET r == allocBit(p.blocks[bi])
                  IN  IF r.err = NoErr
                      THEN [pool |-> [popped EXCEPT
                                         !.blocks[bi] = r.blk,
                                         !.freeList = IF r.blk.freeCount > 0
                                                      THEN Append(@, bi) ELSE @],
                            ip |-> bitToIP(r.blk, r.idx),
                            err |-> NoErr,
                            returned |-> TRUE,
                            iters |-> 1]
                      ELSE [allocateFromFreeList(popped) EXCEPT !.iters = @ + 1]

\* a new-block part without the exhaustion check
allocateNewBlockNoLimit(p) ==
    LET blkIncoming == p.nextBlockIndex
        startBI == add(lsh(p.networkAddr, 0),
                       lsh([Hi |-> 0, Lo |-> blkIncoming], p.hostBits))
        prefix == [IP |-> toIP(startBI), Mask |-> p.blockMask]
        r == allocBit(newBlock(prefix, p.blockSize))
        ip == bitToIP(r.blk, r.idx)
    IN  [pool |-> [p EXCEPT
                     !.blocks = putBlock(@, blkIncoming, r.blk),
                     !.freeList = IF r.blk.freeCount > 0
                                  THEN Append(@, blkIncoming) ELSE @,
                     !.nextBlockIndex = (@ + 1) % WordMod],
         ip |-> ip,
         err |-> NoErr,
         iters |-> 0]

\* the new-block part of Allocate, once the free list gave nothing
allocateNewBlock(p) ==
    IF p.nextBlockIndex >= p.maxBlocks
    THEN [pool |-> p, ip |-> NilIP, err |-> PoolExhausted, iters |-> 0]
    ELSE LET blkIncoming == p.nextBlockIndex
             startBI == add(lsh(p.networkAddr, 0),
                            lsh([Hi |-> 0, Lo |-> blkIncoming], p.hostBits))
             prefix == [IP |-> toIP(startBI), Mask |-> p.blockMask]
             r == allocBit(newBlock(prefix, p.blockSize))
             ip == bitToIP(r.blk, r.idx)
         IN  [pool |-> [p EXCEPT
                          !.blocks = putBlock(@, blkIncoming, r.blk),
                          !.freeList = IF r.blk.freeCount > 0
                                       THEN Append(@, blkIncoming) ELSE @,
                          !.nextBlockIndex = (@ + 1) % WordMod],
              ip |-> ip,
              err |-> NoErr,
              iters |-> 0]

\* Pool.Allocate
Allocate(p) ==
    LET f == allocateFromFreeList(p)
    IN  IF f.returned
        THEN [pool |-> f.pool, ip |-> f.ip, err |-> f.err, iters |-> f.iters]
        ELSE [allocateNewBlock(f.pool) EXCEPT !.iters = f.iters]

\* the block index Release computes for an address
releaseIndex(p, ip) == rsh(sub(fromIP(ip), p.networkAddr), p.hostBits).Lo

\* a Release that pushes the block index only when the free list does not
\* hold it yet
ReleaseDeduplicated(p, ip) ==
    LET bi == releaseIndex(p, ip)
    IN  IF bi \notin DOMAIN p.blocks
        THEN [pool |-> p, err |-> AddressNotInPool]
        ELSE LET blk == p.blocks[bi]
                 o == ipToBit(blk, ip)
             IN  IF o.err # NoErr
                 THEN [pool |-> p, err |-> o.err]
                 ELSE LET r == releaseBit(blk, o.idx)
                      IN  IF r.err # NoErr
                          THEN [pool |-> p, err |-> r.err]
                          ELSE [pool |-> [p EXCEPT
                                            !.blocks[bi] = r.blk,
                                            !.freeList =
                                                IF /\ r.blk.freeCount > 0
                                                   /\ \A k \in 1 .. Len(@) : @[k] # bi
                                                THEN Append(@, bi) ELSE @],
                                err |-> NoErr]

\* a Release that pushes the block index before it knows that the bit could be
\* cleared
ReleasePushFirst(p, ip) ==
    LET bi == releaseIndex(p, ip)
    IN  IF bi \notin DOMAIN p.blocks
        THEN [pool |-> p, err |-> AddressNotInPool]
        ELSE LET blk == p.blocks[bi]
                 pushed == [p EXCEPT !.freeList = Append(@, bi)]
                 o == ipToBit(blk, ip)
             IN  IF o.err # NoErr
                 THEN [pool |-> pushed, err |-> o.err]
                 ELSE LET r == releaseBit(blk, o.idx)
                      IN  IF r.err # NoErr
                          THEN [pool |-> pushed, err |-> r.err]
                          ELSE [pool |-> [pushed EXCEPT !.blocks[bi] = r.blk],
                                err |-> NoErr]

\* Pool.Release
Release(p, ip) ==
    LET bi == releaseIndex(p, ip)
    IN  IF bi \notin DOMAIN p.blocks
        THEN [pool |-> p, err |-> AddressNotInPool]
        ELSE LET blk == p.blocks[bi]
                 o == ipToBit(blk, ip)
             IN  IF o.err # NoErr
                 THEN [pool |-> p, err |-> o.err]
                 ELSE LET r == releaseBit(blk, o.idx)
                      IN  IF r.err # NoErr
                          THEN [pool |-> p, err |-> r.err]
                          ELSE [pool |-> [p EXCEPT
                                            !.blocks[bi] = r.blk,
                                            !.freeList = IF r.blk.freeCount > 0
                                                         THEN Append(@, bi) ELSE @],
                                err |-> NoErr]

---------------------------------------------------------------------------
(* Snapshot *)

\* a nil *Snapshot
NilSnapshot ==
    [BlockMask |-> NilMask, NetworkAddr |-> [Hi |-> 0, Lo |-> 0], HostBits |-> 0,
     BlockSize |-> 0, NextBlockIndex |-> 0, MaxBlocks |-> 0, FreeList |-> <<>>,
     Blocks |-> <<>>]

\* a copy that copies nothing and leaves the destination as allocated
copyNothing(dst, src) == dst

\* the builtin copy(dst, src): the first min(len(dst), len(src)) elements
copy(dst, src) ==
    [i \in 1 .. Len(dst) |-> IF i <= Len(src) THEN src[i] ELSE dst[i]]

\* make([]uint64, n)
makeWords(n) == [i \in 1 .. n |-> 0]

\* Pool.Snapshot
Snapshot(p) ==
    [BlockMask |-> p.blockMask,
     NetworkAddr |-> p.networkAddr,
     HostBits |-> p.hostBits,
     BlockSize |-> p.blockSize,
     NextBlockIndex |-> p.nextBlockIndex,
     MaxBlocks |-> p.maxBlocks,
     FreeList |-> copy(makeWords(Len(p.freeList)), p.freeList),
     Blocks |-> [idx \in DOMAIN p.blocks |->
                    copy(makeWords(Len(p.blocks[idx].used)), p.blocks[idx].used)]]

RECURSIVE usedCount(_)
\* the number of set bits of a sequence of bitmap words, as a word
usedCount(words) ==
    IF Len(words) = 0 THEN 0
    ELSE (OnesCount64(words[1]) + usedCount(Tail(words))) % WordMod

\* the body of the rebuild loop of NewPoolFromSnapshot for one block
restoreBlock(p, idx, words) ==
    LET startBI == add(p.networkAddr, lsh([Hi |-> 0, Lo |-> idx], p.hostBits))
        prefix == [IP |-> toIP(startBI), Mask |-> p.blockMask]
        blk == newBlock(prefix, p.blockSize)
    IN  [blk EXCEPT !.used = copy(blk.used, words),
                    !.freeCount = (p.blockSize - usedCount(words) + WordMod) % WordMod]

\* a restore whose rebuild loop leaves out the blocks with an all-zero bitmap
NewPoolFromSnapshotSkipEmpty(s) ==
    IF s.BlockMask = NilMask \/ s.BlockSize = 0
    THEN [pool |-> NilPool, err |-> InvalidSnapshot]
    ELSE LET p == [blockMask |-> s.BlockMask,
                   networkAddr |-> s.NetworkAddr,
                   hostBits |-> s.HostBits,
                   blockSize |-> s.BlockSize,
                   blocks |-> <<>>,
                   freeList |-> copy(makeWords(Len(s.FreeList)), s.FreeList),
                   nextBlockIndex |-> s.NextBlockIndex,
                   maxBlocks |-> s.MaxBlocks]
             kept == {idx \in DOMAIN s.Blocks : usedCount(s.Blocks[idx]) # 0}
         IN  [pool |-> [p EXCEPT !.blocks = [idx \in kept |->
                                                restoreBlock(p, idx, s.Blocks[idx])]],
              err |-> NoErr]

\* NewPoolFromSnapshot
NewPoolFromSnapshot(s) ==
    IF s.BlockMask = NilMask \/ s.BlockSize = 0
    THEN [pool |-> NilPool, err |-> InvalidSnapshot]
    ELSE LET p == [blockMask |-> s.BlockMask,
                   networkAddr |-> s.NetworkAddr,
                   hostBits |-> s.HostBits,
                   blockSize |-> s.BlockSize,
                   blocks |-> <<>>,
                   freeList |-> copy(makeWords(Len(s.FreeList)), s.FreeList),
                   nextBlockIndex |-> s.NextBlockIndex,
                   maxBlocks |-> s.MaxBlocks]
         IN  [pool |-> [p EXCEPT !.blocks = [idx \in DOMAIN s.Blocks |->
                                                restoreBlock(p, idx, s.Blocks[idx])]],
              err |-> NoErr]

---------------------------------------------------------------------------
(* Backing arrays.  A Go slice refers to a backing array, and two slices   *)
(* that refer to one array see each other's writes.  An array is named by  *)
(* the object whose code made it and by its slot in that object: the free  *)
(* list, the mask, or the bitmap of block bi.                              *)

\* slots of the free list and of the mask (the bitmap of block bi has slot bi)
FreeListSlot == 0 - 1
MaskSlot == 0 - 2

\* the arrays a pool refers to: freeList (make in NewPool / in
\* NewPoolFromSnapshot), blockMask (net.CIDRMask / append(net.IPMask{}, ...))
\* and each block's used (make in newBlock)
PoolArrays(owner, p) ==
    [freeList |-> <<owner, FreeListSlot>>,
     blockMask |-> <<owner, MaskSlot>>,
     used |-> [bi \in DOMAIN p.blocks |-> <<owner, bi>>]]

\* a snapshot whose bitmaps are the pool's own slices (bm[idx] = blk.used)
SnapshotArraysAliased(s) ==
    [FreeList |-> <<"snap", FreeListSlot>>,
     BlockMask |-> <<"snap", MaskSlot>>,
     Blocks |-> [idx \in DOMAIN s.Blocks |-> <<"pool", idx>>]]

\* the arrays a snapshot refers to: fl and words are made by Snapshot(), the
\* mask is appended to an empty slice
SnapshotArrays(s) ==
    [FreeList |-> <<"snap", FreeListSlot>>,
     BlockMask |-> <<"snap", MaskSlot>>,
     Blocks |-> [idx \in DOMAIN s.Blocks |-> <<"snap", idx>>]]

\* the arrays a call on pool p of the given owner may have written, with their
\* contents after the call (b.used[wi] |= ..., b.used[wi] &^= ..., and the
\* pop / append of p.freeList)
Writes(owner, p) ==
    {[id |-> <<owner, FreeListSlot>>, val |-> p.freeList]}
        \cup {[id |-> <<owner, bi>>, val |-> p.blocks[bi].used] : bi \in DOMAIN p.blocks}

\* the slice `view` of array id after the writes W: unchanged when its array
\* was not written, else the written contents as far as the slice reaches
written(view, id, W) ==
    IF \E w \in W : w.id = id
    THEN copy(view, (CHOOSE w \in W : w.id = id).val)
    ELSE view

\* the snapshot s as it reads after the writes W
seenBySnapshot(s, W) ==
    [s EXCEPT !.FreeList = written(@, SnapshotArrays(s).FreeList, W),
              !.Blocks = [idx \in DOMAIN @ |->
                             written(@[idx], SnapshotArrays(s).Blocks[idx], W)]]

\* the pool p of the given owner as it reads after the writes W
seenByPool(owner, p, W) ==
    [p EXCEPT !.freeList = written(@, PoolArrays(owner, p).freeList, W),
              !.blocks = [bi \in DOMAIN @ |->
                             [@[bi] EXCEPT !.used =
                                 written(@, PoolArrays(owner, p).used[bi], W)]]]

---------------------------------------------------------------------------
(* The sequential program: one caller constructs a pool and then calls     *)
(* Allocate and Release in any order, with any address.                    *)

\* bound on the number of Allocate/Release calls of one run
MaxOps == 8

\* the address texts NewPool is tried with
NetAddressInputs ==
    {[kind |-> "garbage", val |-> 0], [kind |-> "v4", val |-> 0],
     [kind |-> "v6", val |-> 171]}
\* the prefix lengths NewPool is tried with
PrefixInputs == (0 - 1) .. (ipv6BitLen + 1)

\* addresses outside what Allocate has handed out, placed around the pool p:
\* the address just below the network (the subtraction of Release wraps), the
\* second address of the network, the base of the first block not yet created
\* (just past the pool once every block exists), and the address one word
\* range above block 0, whose shifted difference has low word 0
ProbeAddresses(p) ==
    {toIP(sub(p.networkAddr, [Hi |-> 0, Lo |-> 1])),
     toIP(add(p.networkAddr, [Hi |-> 0, Lo |-> 1])),
     toIP(add(p.networkAddr, lsh([Hi |-> 0, Lo |-> p.nextBlockIndex], p.hostBits))),
     toIP(add(p.networkAddr, lsh([Hi |-> 1, Lo |-> 0], p.hostBits)))}

\* the addresses Release is tried with: every address Allocate ever returned
\* (held or already released) and the probe addresses
ReleaseInputs == returned \cup ProbeAddresses(pool)

\* number of goroutines that call Allocate concurrently
NumCallers == 2
Callers == 1 .. NumCallers
\* the zero value of sync.Mutex
Unlocked == 0
\* the locals of a call that has not started: the method called and its
\* argument, the locals of Allocate (iters counts the passes of its loop), the
\* copies fl and bm that Snapshot builds, the result, and the pool as the call
\* found it when it took the lock
NoLocals == [op |-> "none", arg |-> NilIP, bi |-> 0, blkIncoming |-> 0, iters |-> 0,
             fl |-> <<>>, bm |-> <<>>, ip |-> NilIP, err |-> NoErr, entry |-> NilPool]

NoCall == [op |-> "none", arg |-> NilIP, ip |-> NilIP, err |-> NoErr, iters |-> 0]
\* no call made on the block yet
NoBlockCall == [op |-> "none", arg |-> 0, idx |-> 0, ip |-> NilIP, err |-> NoErr]
\* a nil *block
NilBlock == [prefix |-> [IP |-> NilIP, Mask |-> NilMask], used |-> <<>>,
             freeCount |-> 0, size |-> 0]

Init ==
    /\ pool = NilPool
    /\ newErr = NoErr
    /\ cfg = [netAddress |-> [kind |-> "garbage", val |-> 0],
              netPrefixLen |-> 0, blockPrefix |-> 0]
    /\ phase = "new"
    /\ held = {}
    /\ returned = {}
    /\ last = NoCall
    /\ prev = NoCall
    /\ released = FALSE
    /\ nAlloc = 0
    /\ nAllocOK = 0
    /\ ops = 0
    /\ snap = NilSnapshot
    /\ atSnap = NilPool
    /\ restored = NilPool
    /\ stage = "none"
    /\ lastR = NoCall
    /\ lastS = NoCall
    /\ rops = 0
    /\ mu = Unlocked
    /\ pc = [c \in Callers |-> "idle"]
    /\ loc = [c \in Callers |-> NoLocals]
    /\ got = [c \in Callers |-> <<>>]
    /\ ncalls = 0
    /\ block = NilBlock
    /\ lastB = NoBlockCall
    /\ bops = 0

\* pool, err := NewPool(netAddress, netPrefixLen, blockPrefix, _)
CallNewPool(netAddress, netPrefixLen, blockPrefix) ==
    /\ phase = "new"
    /\ LET r == NewPool(netAddress, netPrefixLen, blockPrefix)
       IN  /\ pool' = r.pool
           /\ newErr' = r.err
           /\ phase' = IF r.err = NoErr THEN "ready" ELSE "failed"
    /\ cfg' = [netAddress |-> netAddress, netPrefixLen |-> netPrefixLen,
               blockPrefix |-> blockPrefix]
    /\ UNCHANGED <<held, returned, last, prev, released, nAlloc, nAllocOK, ops>>
    /\ UNCHANGED <<snapVars, concVars, blockVars>>

\* ip, err := pool.Allocate()
CallAllocate ==
    /\ phase = "ready"
    /\ ops < MaxOps
    /\ LET r == Allocate(pool)
       IN  /\ pool' = r.pool
           /\ last' = [op |-> "Allocate", arg |-> NilIP, ip |-> r.ip, err |-> r.err,
                        iters |-> r.iters]
           /\ held' = IF r.err = NoErr THEN held \cup {r.ip} ELSE held
           /\ returned' = IF r.err = NoErr THEN returned \cup {r.ip} ELSE returned
           /\ nAllocOK' = IF r.err = NoErr THEN nAllocOK + 1 ELSE nAllocOK
    /\ prev' = IF last.op = "Allocate" THEN last ELSE NoCall
    /\ nAlloc' = nAlloc + 1
    /\ ops' = ops + 1
    /\ UNCHANGED <<newErr, cfg, phase, released>>
    /\ snap' = seenBySnapshot(snap, Writes("pool", pool'))
    /\ restored' = seenByPool("restored", restored, Writes("pool", pool'))
    /\ UNCHANGED <<atSnap, stage, lastR, lastS, rops>>
    /\ UNCHANGED <<concVars, blockVars>>

\* err := pool.Release(ip)
CallRelease(ip) ==
    /\ phase = "ready"
    /\ ops < MaxOps
    /\ LET r == Release(pool, ip)
       IN  /\ pool' = r.pool
           /\ last' = [op |-> "Release", arg |-> ip, ip |-> NilIP, err |-> r.err,
                        iters |-> 0]
           /\ held' = IF r.err = NoErr THEN held \ {ip} ELSE held
    /\ prev' = IF last.op = "Allocate" THEN last ELSE NoCall
    /\ released' = TRUE
    /\ ops' = ops + 1
    /\ UNCHANGED <<newErr, cfg, phase, returned, nAlloc, nAllocOK>>
    /\ snap' = seenBySnapshot(snap, Writes("pool", pool'))
    /\ restored' = seenByPool("restored", restored, Writes("pool", pool'))
    /\ UNCHANGED <<atSnap, stage, lastR, lastS, rops>>
    /\ UNCHANGED <<concVars, blockVars>>

Next ==
    \/ \E a \in NetAddressInputs, n \in PrefixInputs, b \in PrefixInputs :
           CallNewPool(a, n, b)
    \/ CallAllocate
    \/ \E ip \in ReleaseInputs : CallRelease(ip)

Spec == Init /\ [][Next]_vars

---------------------------------------------------------------------------
(* Snapshot and restore: the caller takes one snapshot of the pool at any  *)
(* time, may go on using the source pool, restores a pool from the         *)
(* snapshot, and then makes calls on the restored pool.  Each such call is *)
(* also made on atSnap, the source pool as it was when Snapshot() ran.     *)

\* bound on the calls made on the source pool in a snapshot run
MaxSourceOps == 3
\* bound on the calls made on the restored pool
MaxRestoredOps == 2

\* snap := pool.Snapshot()
CallSnapshot ==
    /\ phase = "ready"
    /\ stage = "none"
    /\ snap' = Snapshot(pool)
    /\ atSnap' = pool
    /\ stage' = "taken"
    /\ UNCHANGED <<restored, lastR, lastS, rops>>
    /\ UNCHANGED <<poolVars, concVars, blockVars>>

\* restored, err := NewPoolFromSnapshot(snap)
CallNewPoolFromSnapshot ==
    /\ stage = "taken"
    /\ LET r == NewPoolFromSnapshot(snap)
       IN  /\ restored' = r.pool
           /\ stage' = IF r.err = NoErr THEN "restored" ELSE "refused"
    /\ UNCHANGED <<snap, atSnap, lastR, lastS, rops>>
    /\ UNCHANGED <<poolVars, concVars, blockVars>>

\* restored.Allocate(), and the same call on the source as of snapshot time
RestoredAllocate ==
    /\ stage = "restored"
    /\ rops < MaxRestoredOps
    /\ LET r == Allocate(restored)
           o == Allocate(atSnap)
       IN  /\ restored' = r.pool
           /\ atSnap' = o.pool
           /\ lastR' = [op |-> "Allocate", arg |-> NilIP, ip |-> r.ip, err |-> r.err]
           /\ lastS' = [op |-> "Allocate", arg |-> NilIP, ip |-> o.ip, err |-> o.err]
    /\ rops' = rops + 1
    /\ snap' = seenBySnapshot(snap, Writes("restored", restored'))
    /\ pool' = seenByPool("pool", pool, Writes("restored", restored'))
    /\ UNCHANGED <<newErr, cfg, phase, held, returned, last, prev, released, nAlloc, nAllocOK, ops>>
    /\ UNCHANGED <<stage, concVars, blockVars>>

\* restored.Release(ip), and the same call on the source as of snapshot time
RestoredRelease(ip) ==
    /\ stage = "restored"
    /\ rops < MaxRestoredOps
    /\ LET r == Release(restored, ip)
           o == Release(atSnap, ip)
       IN  /\ restored' = r.pool
           /\ atSnap' = o.pool
           /\ lastR' = [op |-> "Release", arg |-> ip, ip |-> NilIP, err |-> r.err]
           /\ lastS' = [op |-> "Release", arg |-> ip, ip |-> NilIP, err |-> o.err]
    /\ rops' = rops + 1
    /\ snap' = seenBySnapshot(snap, Writes("restored", restored'))
    /\ pool' = seenByPool("pool", pool, Writes("restored", restored'))
    /\ UNCHANGED <<newErr, cfg, phase, held, returned, last, prev, released, nAlloc, nAllocOK, ops>>
    /\ UNCHANGED <<stage, concVars, blockVars>>

\* the addresses Release is tried with on the restored pool: every address the
\* source pool has handed out (before or after the snapshot), the address the
\* restored pool returned last, and the probe addresses
RestoredReleaseInputs ==
    returned \cup ProbeAddresses(restored) \cup (IF lastR.ip = NilIP THEN {} ELSE {lastR.ip})

SnapNext ==
    \/ \E a \in NetAddressInputs, n \in PrefixInputs, b \in PrefixInputs :
           CallNewPool(a, n, b)
    \/ (ops < MaxSourceOps /\ CallAllocate)
    \/ \E ip \in ReleaseInputs : (ops < MaxSourceOps /\ CallRelease(ip))
    \/ CallSnapshot
    \/ CallNewPoolFromSnapshot
    \/ RestoredAllocate
    \/ \E ip \in RestoredReleaseInputs : RestoredRelease(ip)

SpecSnap == Init /\ [][SnapNext]_vars

---------------------------------------------------------------------------
(* Concurrent callers: several goroutines call Allocate on one pool.  Each *)
(* call is split into the steps of its body, so that the steps of          *)
(* different calls interleave wherever the mutex allows it.                *)

\* bound on the number of concurrent Allocate calls of one run
MaxCalls == 5

\* a Lock that never waits
lockAlways(m) == TRUE

\* p.mu.Lock() can return: the mutex is not held
lockAvailable(m) == m = Unlocked

\* an Unlock that leaves the mutex held
unlockKeeps(m) == m

\* p.mu.Unlock(): the mutex after the deferred call
unlock(m) == Unlocked

\* p.mu.Lock() at the start of Allocate
AllocLock(c) ==
    /\ phase = "ready"
    /\ pc[c] = "idle"
    /\ ncalls < MaxCalls
    /\ lockAvailable(mu)
    /\ mu' = c
    /\ pc' = [pc EXCEPT ![c] = "loop"]
    /\ loc' = [loc EXCEPT ![c] = [NoLocals EXCEPT !.op = "Allocate", !.entry = pool]]
    /\ ncalls' = ncalls + 1
    /\ UNCHANGED <<pool, got>>

\* the loop test and the pop: bi := p.freeList[len-1]; p.freeList = p.freeList[:len-1]
AllocPop(c) ==
    /\ pc[c] = "loop"
    /\ IF Len(pool.freeList) > 0
       THEN /\ loc' = [loc EXCEPT ![c].bi = pool.freeList[Len(pool.freeList)],
                                   ![c].iters = @ + 1]
            /\ pool' = [pool EXCEPT !.freeList = SubSeq(@, 1, Len(@) - 1)]
            /\ pc' = [pc EXCEPT ![c] = "try"]
       ELSE /\ pc' = [pc EXCEPT ![c] = "check"]
            /\ UNCHANGED <<pool, loc>>
    /\ UNCHANGED <<mu, got, ncalls>>

\* blk := p.blocks[bi]; idx, err := blk.allocBit(); the re-push and the return
AllocTry(c) ==
    /\ pc[c] = "try"
    /\ LET bi == loc[c].bi
       IN  IF bi \notin DOMAIN pool.blocks
           THEN /\ loc' = [loc EXCEPT ![c].err = Panic]
                /\ pc' = [pc EXCEPT ![c] = "unlock"]
                /\ UNCHANGED pool
           ELSE \E r \in {allocBit(pool.blocks[bi])} :
                    IF r.err = NoErr
                    THEN /\ pool' = [pool EXCEPT
                                        !.blocks[bi] = r.blk,
                                        !.freeList = IF r.blk.freeCount > 0
                                                     THEN Append(@, bi) ELSE @]
                         /\ loc' = [loc EXCEPT ![c].ip = bitToIP(r.blk, r.idx)]
                         /\ pc' = [pc EXCEPT ![c] = "unlock"]
                    ELSE /\ pc' = [pc EXCEPT ![c] = "loop"]
                         /\ UNCHANGED <<pool, loc>>
    /\ UNCHANGED <<mu, got, ncalls>>

\* the exhaustion test and blkIncoming := p.nextBlockIndex
AllocCheck(c) ==
    /\ pc[c] = "check"
    /\ IF pool.nextBlockIndex >= pool.maxBlocks
       THEN /\ loc' = [loc EXCEPT ![c].err = PoolExhausted]
            /\ pc' = [pc EXCEPT ![c] = "unlock"]
       ELSE /\ loc' = [loc EXCEPT ![c].blkIncoming = pool.nextBlockIndex]
            /\ pc' = [pc EXCEPT ![c] = "create"]
    /\ UNCHANGED <<pool, mu, got, ncalls>>

\* the new block: its first address, p.blocks[blkIncoming] = blk, the push and
\* p.nextBlockIndex++
AllocCreate(c) ==
    /\ pc[c] = "create"
    /\ LET blkIncoming == loc[c].blkIncoming
       IN  \E startBI \in {add(lsh(pool.networkAddr, 0),
                               lsh([Hi |-> 0, Lo |-> blkIncoming], pool.hostBits))} :
           \E prefix \in {[IP |-> toIP(startBI), Mask |-> pool.blockMask]} :
           \E r \in {allocBit(newBlock(prefix, pool.blockSize))} :
               /\ pool' = [pool EXCEPT
                              !.blocks = putBlock(@, blkIncoming, r.blk),
                              !.freeList = IF r.blk.freeCount > 0
                                           THEN Append(@, blkIncoming) ELSE @,
                              !.nextBlockIndex = (@ + 1) % WordMod]
               /\ loc' = [loc EXCEPT ![c].ip = bitToIP(r.blk, r.idx)]
    /\ pc' = [pc EXCEPT ![c] = "unlock"]
    /\ UNCHANGED <<mu, got, ncalls>>

\* the deferred p.mu.Unlock() and the return to the caller
AllocUnlock(c) ==
    /\ pc[c] = "unlock"
    /\ mu' = unlock(mu)
    /\ got' = [got EXCEPT ![c] = IF loc[c].err = NoErr THEN Append(@, loc[c].ip) ELSE @]
    /\ pc' = [pc EXCEPT ![c] = "idle"]
    /\ UNCHANGED <<pool, loc, ncalls>>

ConcStep(c) ==
    /\ \/ AllocLock(c)
       \/ AllocPop(c)
       \/ AllocTry(c)
       \/ AllocCheck(c)
       \/ AllocCreate(c)
       \/ AllocUnlock(c)
    /\ UNCHANGED <<newErr, cfg, phase, held, returned, last, prev, released, nAlloc, nAllocOK, ops>>
    /\ UNCHANGED <<snapVars, blockVars>>

ConcNext ==
    \/ \E a \in NetAddressInputs, n \in PrefixInputs, b \in PrefixInputs :
           CallNewPool(a, n, b)
    \/ \E c \in Callers : ConcStep(c)

SpecConc == Init /\ [][ConcNext]_vars

---------------------------------------------------------------------------
(* Concurrent callers of Allocate, Release and Snapshot.  A call starts,   *)
(* waits in p.mu.Lock(), runs its body step by step and returns through     *)
(* the deferred p.mu.Unlock().                                              *)

\* calls made by the callers together
MaxMixedCalls == 3

\* the addresses the callers release: every address a caller has received and
\* the address just below the network
MixedReleaseInputs ==
    {got[x[1]][x[2]] : x \in {y \in Callers \X (1 .. MaxCalls) : y[2] <= Len(got[y[1]])}}
        \cup {toIP(sub(pool.networkAddr, [Hi |-> 0, Lo |-> 1]))}

\* caller c calls p.Allocate(), p.Release(arg) or p.Snapshot() and reaches
\* p.mu.Lock()
CallStart(c, op, arg) ==
    /\ phase = "ready"
    /\ pc[c] = "idle"
    /\ ncalls < MaxMixedCalls
    /\ pc' = [pc EXCEPT ![c] = "wait"]
    /\ loc' = [loc EXCEPT ![c] = [NoLocals EXCEPT !.op = op, !.arg = arg]]
    /\ ncalls' = ncalls + 1
    /\ UNCHANGED <<pool, mu, got, snap>>

\* p.mu.Lock() returns
LockAcquire(c) ==
    /\ pc[c] = "wait"
    /\ lockAvailable(mu)
    /\ mu' = c
    /\ pc' = [pc EXCEPT ![c] = CASE loc[c].op = "Allocate" -> "loop"
                                 [] loc[c].op = "Release" -> "find"
                                 [] OTHER -> "copyfl"]
    /\ loc' = [loc EXCEPT ![c].entry = pool]
    /\ UNCHANGED <<pool, got, ncalls, snap>>

\* Release: the block index, the lookup, ipToBit and releaseBit (each local
\* is bound once, as \E over a one-element set)
RelClear(c) ==
    /\ pc[c] = "find"
    /\ \E ip \in {loc[c].arg} :
       \E bi \in {releaseIndex(pool, ip)} :
           IF bi \notin DOMAIN pool.blocks
           THEN /\ loc' = [loc EXCEPT ![c].err = AddressNotInPool]
                /\ pc' = [pc EXCEPT ![c] = "runlock"]
                /\ UNCHANGED pool
           ELSE \E blk \in {pool.blocks[bi]} :
                \E o \in {ipToBit(blk, ip)} :
                    IF o.err # NoErr
                    THEN /\ loc' = [loc EXCEPT ![c].err = o.err]
                         /\ pc' = [pc EXCEPT ![c] = "runlock"]
                         /\ UNCHANGED pool
                    ELSE \E r \in {releaseBit(blk, o.idx)} :
                             IF r.err # NoErr
                             THEN /\ loc' = [loc EXCEPT ![c].err = r.err]
                                  /\ pc' = [pc EXCEPT ![c] = "runlock"]
                                  /\ UNCHANGED pool
                             ELSE /\ pool' = [pool EXCEPT !.blocks[bi] = r.blk]
                                  /\ loc' = [loc EXCEPT ![c].bi = bi]
                                  /\ pc' = [pc EXCEPT ![c] = "push"]
    /\ UNCHANGED <<mu, got, ncalls, snap>>

\* Release: if blk.freeCount > 0 { p.freeList = append(p.freeList, bi) }
RelPush(c) ==
    /\ pc[c] = "push"
    /\ pool' = [pool EXCEPT !.freeList = IF pool.blocks[loc[c].bi].freeCount > 0
                                         THEN Append(@, loc[c].bi) ELSE @]
    /\ pc' = [pc EXCEPT ![c] = "runlock"]
    /\ UNCHANGED <<mu, loc, got, ncalls, snap>>

\* Release: the deferred p.mu.Unlock() and the return
RelUnlock(c) ==
    /\ pc[c] = "runlock"
    /\ mu' = unlock(mu)
    /\ pc' = [pc EXCEPT ![c] = "idle"]
    /\ UNCHANGED <<pool, loc, got, ncalls, snap>>

\* Snapshot: fl := make([]uint64, len(p.freeList)); copy(fl, p.freeList)
SnapFreeList(c) ==
    /\ pc[c] = "copyfl"
    /\ loc' = [loc EXCEPT ![c].fl = copy(makeWords(Len(pool.freeList)), pool.freeList)]
    /\ pc' = [pc EXCEPT ![c] = "copybm"]
    /\ UNCHANGED <<pool, mu, got, ncalls, snap>>

\* Snapshot: the loop that copies every block's bitmap words into bm
SnapBlocks(c) ==
    /\ pc[c] = "copybm"
    /\ loc' = [loc EXCEPT ![c].bm =
                  [idx \in DOMAIN pool.blocks |->
                      copy(makeWords(Len(pool.blocks[idx].used)), pool.blocks[idx].used)]]
    /\ pc' = [pc EXCEPT ![c] = "build"]
    /\ UNCHANGED <<pool, mu, got, ncalls, snap>>

\* Snapshot: the returned &Snapshot{...}, which reads the scalar fields
SnapBuild(c) ==
    /\ pc[c] = "build"
    /\ snap' = [BlockMask |-> pool.blockMask,
                NetworkAddr |-> pool.networkAddr,
                HostBits |-> pool.hostBits,
                BlockSize |-> pool.blockSize,
                NextBlockIndex |-> pool.nextBlockIndex,
                MaxBlocks |-> pool.maxBlocks,
                FreeList |-> loc[c].fl,
                Blocks |-> loc[c].bm]
    /\ pc' = [pc EXCEPT ![c] = "sunlock"]
    /\ UNCHANGED <<pool, mu, loc, got, ncalls>>

\* Snapshot: the deferred p.mu.Unlock() and the return
SnapUnlock(c) ==
    /\ pc[c] = "sunlock"
    /\ mu' = unlock(mu)
    /\ pc' = [pc EXCEPT ![c] = "idle"]
    /\ UNCHANGED <<pool, loc, got, ncalls, snap>>

\* what no step of a caller changes
MixedFrame ==
    /\ UNCHANGED <<newErr, cfg, phase, held, returned, last, prev, released, nAlloc, nAllocOK, ops>>
    /\ UNCHANGED <<atSnap, restored, stage, lastR, lastS, rops>>
    /\ UNCHANGED blockVars

\* caller c starts a call
MixedCall(c) ==
    /\ \/ CallStart(c, "Allocate", NilIP)
       \/ \E ip \in MixedReleaseInputs : CallStart(c, "Release", ip)
       \/ CallStart(c, "Snapshot", NilIP)
    /\ MixedFrame

\* caller c gets the lock
MixedLock(c) == LockAcquire(c) /\ MixedFrame

\* a step of caller c inside the lock
MixedBody(c) ==
    /\ \/ (AllocPop(c) /\ UNCHANGED snap)
       \/ (AllocTry(c) /\ UNCHANGED snap)
       \/ (AllocCheck(c) /\ UNCHANGED snap)
       \/ (AllocCreate(c) /\ UNCHANGED snap)
       \/ (AllocUnlock(c) /\ UNCHANGED snap)
       \/ RelClear(c)
       \/ RelPush(c)
       \/ RelUnlock(c)
       \/ SnapFreeList(c)
       \/ SnapBlocks(c)
       \/ SnapBuild(c)
       \/ SnapUnlock(c)
    /\ MixedFrame

\* the pools the callers share, as <<netPrefixLen, blockPrefix>> of network
\* 171: two blocks of one address, two blocks of two, four blocks of one, and
\* two blocks whose blockSize is 1 << hostBits with hostBits >= WordBits
MixedPoolInputs == {<<7, 8>>, <<6, 7>>, <<6, 8>>, <<0, 1>>}

MixedNext ==
    \/ \E x \in MixedPoolInputs : CallNewPool([kind |-> "v6", val |-> 171], x[1], x[2])
    \/ \E c \in Callers : MixedCall(c)
    \/ \E c \in Callers : MixedLock(c)
    \/ \E c \in Callers : MixedBody(c)

SpecMixed == Init /\ [][MixedNext]_vars

\* calls made by the callers together in the runs checked for progress
MaxFairCalls == 2

FairNext ==
    \/ \E x \in MixedPoolInputs : CallNewPool([kind |-> "v6", val |-> 171], x[1], x[2])
    \/ \E c \in Callers : (ncalls < MaxFairCalls /\ MixedCall(c))
    \/ \E c \in Callers : MixedLock(c)
    \/ \E c \in Callers : MixedBody(c)

\* the Go scheduler lets a goroutine that can run run, and sync.Mutex hands
\* the lock to a goroutine that keeps waiting for it (starvation mode)
SpecMixedFair ==
    /\ Init
    /\ [][FairNext]_vars
    /\ \A c \in Callers : WF_vars(MixedBody(c))
    /\ \A c \in Callers : SF_vars(MixedLock(c))

---------------------------------------------------------------------------
(* A block on its own: the package's tests make a block with newBlock for  *)
(* any base address and any size, and call its four methods directly.      *)

\* bound on the size of the block
MaxBlockSize == 6
\* bound on the number of allocBit/releaseBit calls on the block
MaxBlockOps == 7

\* the base addresses the block is made for: the lowest address, one whose low
\* word overflows when an offset is added, the configured network address, and
\* one near the top of the address space
BlockBaseInputs == {0, WordMod - 3, 171, AddrMod - MaxBlockSize}

\* the addresses ipToBit is tried with, placed around block b: the ends of the
\* address space, the addresses just below and one high-word step below the
\* base, the first and last address of the block, the addresses just past it,
\* the addresses with an offset of the block in the low word and another high
\* word, and the address the last call returned
BlockProbeAddresses(b) ==
    {a \in {0, AddrMod - 1,
            b.prefix.IP - 1, b.prefix.IP - WordMod,
            b.prefix.IP, b.prefix.IP + b.size - 1,
            b.prefix.IP + b.size, b.prefix.IP + b.size + 1,
            b.prefix.IP + WordMod, b.prefix.IP + WordMod + b.size - 1,
            lastB.ip} : a \in Addresses}

\* b := newBlock(net.IPNet{IP: ip, Mask: net.CIDRMask(ipv6BitLen, ipv6BitLen)}, size),
\* for a segment that lies inside the address space
CallNewBlock(ip, size) ==
    /\ lastB.op = "none"
    /\ ip + size <= AddrMod
    /\ block' = newBlock([IP |-> ip, Mask |-> CIDRMask(ipv6BitLen, ipv6BitLen)], size)
    /\ lastB' = [NoBlockCall EXCEPT !.op = "newBlock", !.arg = size]
    /\ UNCHANGED bops
    /\ UNCHANGED <<poolVars, snapVars, concVars>>

\* idx, err := b.allocBit()
CallAllocBit ==
    /\ lastB.op # "none"
    /\ bops < MaxBlockOps
    /\ LET r == allocBit(block)
       IN  /\ block' = r.blk
           /\ lastB' = [op |-> "allocBit", arg |-> 0, idx |-> r.idx, ip |-> NilIP,
                        err |-> r.err]
    /\ bops' = bops + 1
    /\ UNCHANGED <<poolVars, snapVars, concVars>>

\* err := b.releaseBit(idx)
CallReleaseBit(idx) ==
    /\ lastB.op # "none"
    /\ bops < MaxBlockOps
    /\ LET r == releaseBit(block, idx)
       IN  /\ block' = r.blk
           /\ lastB' = [op |-> "releaseBit", arg |-> idx, idx |-> 0, ip |-> NilIP,
                        err |-> r.err]
    /\ bops' = bops + 1
    /\ UNCHANGED <<poolVars, snapVars, concVars>>

\* ip := b.bitToIP(idx)
CallBitToIP(idx) ==
    /\ lastB.op # "none"
    /\ lastB' = [op |-> "bitToIP", arg |-> idx, idx |-> 0, ip |-> bitToIP(block, idx),
                 err |-> NoErr]
    /\ UNCHANGED <<block, bops>>
    /\ UNCHANGED <<poolVars, snapVars, concVars>>

\* idx, err := b.ipToBit(ip)
CallIpToBit(ip) ==
    /\ lastB.op # "none"
    /\ LET r == ipToBit(block, ip)
       IN  lastB' = [op |-> "ipToBit", arg |-> ip, idx |-> r.idx, ip |-> NilIP,
                     err |-> r.err]
    /\ UNCHANGED <<block, bops>>
    /\ UNCHANGED <<poolVars, snapVars, concVars>>

BlockNext ==
    \/ \E ip \in BlockBaseInputs, size \in 0 .. MaxBlockSize : CallNewBlock(ip, size)
    \/ CallAllocBit
    \/ \E idx \in (0 .. (block.size + 1)) \cup {WordMod - 1} : CallReleaseBit(idx)
    \/ \E idx \in 0 .. (block.size - 1) : CallBitToIP(idx)
    \/ \E ip \in BlockProbeAddresses(block) : CallIpToBit(ip)

SpecBlock == Init /\ [][BlockNext]_vars

---------------------------------------------------------------------------
(* Properties of the sequential program *)

\* the step is a call of Allocate / of Release
AllocateStep == ops' = ops + 1 /\ last'.op = "Allocate"
ReleaseStep == ops' = ops + 1 /\ last'.op = "Release"

\* C1: with no Release call so far, all addresses Allocate returned are
\* pairwise different: n successful calls have handed out n distinct addresses.
C1_UniqueWithoutRelease ==
    (phase = "ready" /\ ~released) => Cardinality(returned) = nAllocOK

\* C1 witness: five successful allocations, no Release, more than one block
C1_Witness ==
    /\ ~released
    /\ nAllocOK >= 5
    /\ Cardinality(DOMAIN pool.blocks) >= 2
    /\ pool.blockSize >= 2

\* C2: whatever calls came before (successful or failed, in any order), an
\* Allocate call never returns an address that is held at the time of the call.
C2_NeverReturnsHeld ==
    [][(AllocateStep /\ last'.err = NoErr) => last'.ip \notin held]_vars

\* C2 witness: after a failed and a successful Release, Allocate hands out an
\* address for the second time while other addresses are held
C2_Witness ==
    /\ last.op = "Allocate"
    /\ last.err = NoErr
    /\ released
    /\ nAllocOK > Cardinality(returned)
    /\ Cardinality(held) >= 3

\* the number of addresses of the pool, as the product of its two fields
TotalAddresses == pool.maxBlocks * pool.blockSize

\* C3: with no Release call, the Allocate calls that succeed are exactly the
\* first N = maxBlocks x blockSize, and the call after them fails with
\* PoolExhausted.
C3_ExhaustionAfterN ==
    (phase = "ready" /\ ~released /\ last.op = "Allocate") =>
        /\ (last.err = NoErr) <=> (nAlloc <= TotalAddresses)
        /\ (nAlloc > TotalAddresses) => last.err = PoolExhausted

\* C4: Release of a held address succeeds.
C4_ReleaseOfHeldSucceeds ==
    [][(ReleaseStep /\ last'.arg \in held) => last'.err = NoErr]_vars

\* C5: releasing a held address succeeds, and releasing it again right after
\* fails with ErrNotAllocated and changes nothing, leaving the address free.
C5_DoubleRelease ==
    [][/\ (ReleaseStep /\ last'.arg \in held) =>
              /\ last'.err = NoErr
              /\ last'.arg \notin held'
       /\ (ReleaseStep /\ last.op = "Release" /\ last.err = NoErr
                       /\ last'.arg = last.arg) =>
              /\ last'.err = ErrNotAllocated
              /\ pool' = pool
              /\ held' = held]_vars

\* the second half of C5 alone: a Release that repeats a successful Release
\* fails with ErrNotAllocated and leaves the pool as it was
SecondReleaseRejected ==
    [][(ReleaseStep /\ last.op = "Release" /\ last.err = NoErr
                    /\ last'.arg = last.arg) =>
           (last'.err = ErrNotAllocated /\ pool' = pool /\ held' = held)]_vars

\* the configured base address masked to the network prefix
ConfiguredNetwork ==
    bitAnd(cfg.netAddress.val, (2 ^ ipv6BitLen) - (2 ^ (ipv6BitLen - cfg.netPrefixLen)))

\* C6: every address Allocate returned, masked to netPrefixLen bits, is the
\* configured base address masked to netPrefixLen bits.
C6_Containment ==
    phase = "ready" =>
        \A ip \in returned :
            bitAnd(ip, (2 ^ ipv6BitLen) - (2 ^ (ipv6BitLen - cfg.netPrefixLen)))
                = ConfiguredNetwork

\* C6 witness: addresses of three blocks handed out, from a base address that
\* has bits below the network prefix
C6_Witness ==
    /\ phase = "ready"
    /\ Cardinality(DOMAIN pool.blocks) >= 3
    /\ Cardinality(returned) >= 4
    /\ ConfiguredNetwork # cfg.netAddress.val
    /\ released

\* (address - networkAddress) >> hostBits, low word, in plain arithmetic
BlockIndexOf(p, ip) ==
    (((ip - toIP(p.networkAddr) + AddrMod) % AddrMod) \div (2 ^ p.hostBits)) % WordMod

\* C9: Release of an address whose block index has no block fails with
\* AddressNotInPool and leaves the pool (and what is held) unchanged.
C9_ReleaseWithoutBlock ==
    [][(ReleaseStep /\ BlockIndexOf(pool, last'.arg) \notin DOMAIN pool.blocks) =>
           /\ last'.err = AddressNotInPool
           /\ pool' = pool
           /\ held' = held]_vars

\* C9 witness: such a Release happened on a pool that has blocks and held
\* addresses, for an address below the network
C9_Witness ==
    /\ last.op = "Release"
    /\ last.err = AddressNotInPool
    /\ last.arg < toIP(pool.networkAddr)
    /\ Cardinality(DOMAIN pool.blocks) >= 2
    /\ held # {}

\* the error the four ordered checks of NewPool give for the arguments in cfg
ExpectedNewPoolError ==
    IF cfg.netAddress.kind # "v6" THEN InvalidAddress
    ELSE IF ~(0 <= cfg.netPrefixLen /\ cfg.netPrefixLen <= ipv6BitLen) THEN InvalidPrefix
    ELSE IF ~(cfg.netPrefixLen < cfg.blockPrefix /\ cfg.blockPrefix <= ipv6BitLen)
         THEN InvalidBlockPrefix
    ELSE IF ~(cfg.blockPrefix - cfg.netPrefixLen <= WordBits - 1) THEN TooManyBlocks
    ELSE NoErr

\* C10: NewPool returns the error of the first violated check, in the order
\* address, network prefix, block prefix, block count, with no Pool; it returns
\* a Pool and no error exactly when all four checks pass.
C10_NewPoolValidation ==
    phase # "new" =>
        /\ newErr = ExpectedNewPoolError
        /\ (pool # NilPool) <=> (ExpectedNewPoolError = NoErr)
        /\ (phase = "ready") <=> (ExpectedNewPoolError = NoErr)

\* C10 witness: arguments that violate the last two checks at once are
\* rejected for the block prefix
C10_Witness ==
    /\ phase = "failed"
    /\ cfg.netAddress.kind = "v6"
    /\ cfg.netPrefixLen = 0
    /\ cfg.blockPrefix = ipv6BitLen + 1
    /\ newErr = InvalidBlockPrefix

---------------------------------------------------------------------------
(* Properties of snapshot and restore *)

\* C7: a pool restored from a snapshot gives, for every sequence of Allocate
\* and Release calls, the same results (addresses and errors) as the source
\* pool as it was at snapshot time gives for the same calls.
C7_SnapshotFidelity ==
    stage = "restored" => (lastR.ip = lastS.ip /\ lastR.err = lastS.err)

\* C7 witness: the snapshot was taken after allocations and a release, the
\* source pool was changed afterwards, and the restored pool has handed out
\* the released address again and then reported exhaustion
C7_Witness ==
    /\ stage = "restored"
    /\ released
    /\ pool # atSnap
    /\ rops >= 2
    /\ lastR.op = "Allocate"
    /\ lastR.err = PoolExhausted
    /\ Cardinality(DOMAIN restored.blocks) >= 2

---------------------------------------------------------------------------
(* Properties of concurrent callers *)

\* the results of the concurrent calls so far: <<caller, position in got[caller]>>
Received == {x \in Callers \X (1 .. MaxCalls) : x[2] <= Len(got[x[1]])}

\* C8: under any interleaving of concurrent Allocate calls no address is
\* returned twice (to two callers, or twice to one); at most one call is inside
\* the body of Allocate at a time, and each call ends with the pool and the
\* result that Allocate, run alone, gives from the pool the call found when it
\* took the lock.
C8_ConcurrentUnique ==
    /\ \A x, y \in Received : x # y => got[x[1]][x[2]] # got[y[1]][y[2]]
    /\ \A c, d \in Callers : (pc[c] # "idle" /\ pc[d] # "idle") => c = d
    /\ \A c \in Callers :
           pc[c] = "unlock" =>
               LET r == Allocate(loc[c].entry)
               IN  pool = r.pool /\ loc[c].ip = r.ip /\ loc[c].err = r.err

\* C8 witness: both callers have received addresses, four in all, and a
\* caller is inside Allocate again
C8_Witness ==
    /\ \A c \in Callers : Len(got[c]) >= 1
    /\ Cardinality(Received) >= 4
    /\ \E c \in Callers : pc[c] = "create"
    /\ Cardinality(DOMAIN pool.blocks) >= 2

---------------------------------------------------------------------------
(* Properties of the constructed pool *)

\* C11: for every argument combination NewPool accepts, the pool's fields hold
\* hostBits = ipv6BitLen - blockPrefix, blockSize = 2^hostBits exactly and
\* maxBlocks = 2^(blockPrefix - netPrefixLen) exactly.
C11_DerivedFields ==
    phase = "ready" =>
        /\ pool.hostBits = ipv6BitLen - cfg.blockPrefix
        /\ pool.blockSize = 2 ^ (ipv6BitLen - cfg.blockPrefix)
        /\ pool.maxBlocks = 2 ^ (cfg.blockPrefix - cfg.netPrefixLen)

\* C12: when Allocate returned address a and the very next call is Release(a),
\* the Allocate call right after that returns a again; on a fresh pool the
\* first Allocate returns the network base address.
C12_LowestOffsetReuse ==
    [][/\ (AllocateStep /\ ops = 0) =>
              (last'.err = NoErr /\ last'.ip = ConfiguredNetwork)
       /\ (AllocateStep /\ last.op = "Release" /\ prev.op = "Allocate"
                        /\ prev.err = NoErr /\ last.arg = prev.ip) =>
              (last'.err = NoErr /\ last'.ip = prev.ip)]_vars

\* the reuse half of C12 for a Release that succeeded: the Allocate call right
\* after a successful Release(a) that followed Allocate = a returns a again
ReuseAfterSuccessfulRelease ==
    [][(AllocateStep /\ last.op = "Release" /\ last.err = NoErr
                     /\ prev.op = "Allocate" /\ prev.err = NoErr
                     /\ last.arg = prev.ip) =>
           (last'.err = NoErr /\ last'.ip = prev.ip)]_vars

---------------------------------------------------------------------------
(* Independence of source pool, snapshot and restored pool *)

\* the set of arrays a pool / a snapshot refers to
ArraysOfPool(owner, p) ==
    {PoolArrays(owner, p).freeList, PoolArrays(owner, p).blockMask}
        \cup {PoolArrays(owner, p).used[bi] : bi \in DOMAIN p.blocks}
ArraysOfSnapshot(s) ==
    {SnapshotArrays(s).FreeList, SnapshotArrays(s).BlockMask}
        \cup {SnapshotArrays(s).Blocks[idx] : idx \in DOMAIN s.Blocks}

\* source pool, snapshot and restored pool refer to no common array
NoSharedArrays ==
    /\ ArraysOfPool("pool", pool) \cap ArraysOfSnapshot(snap) = {}
    /\ ArraysOfPool("restored", restored) \cap ArraysOfSnapshot(snap) = {}
    /\ ArraysOfPool("pool", pool) \cap ArraysOfPool("restored", restored) = {}

---------------------------------------------------------------------------
(* Error handling of Release and Allocate *)

\* C14: Release never returns ErrOutOfRange: when the block of the address
\* exists and the address has no valid offset in it, Release fails with
\* AddressNotInPool.
C14_NoRawOutOfRange ==
    [][ReleaseStep =>
           /\ last'.err # ErrOutOfRange
           /\ (/\ releaseIndex(pool, last'.arg) \in DOMAIN pool.blocks
               /\ ipToBit(pool.blocks[releaseIndex(pool, last'.arg)], last'.arg).err # NoErr)
                  => last'.err = AddressNotInPool]_vars

\* C15: NewPoolFromSnapshot fails with InvalidSnapshot and gives no pool when
\* the snapshot's block mask is absent or its block size is zero, and it
\* succeeds for every snapshot that Snapshot() returned for a pool NewPool
\* accepted (every snapshot of this specification is such a snapshot).
C15_RestoreValidation ==
    stage \in {"restored", "refused"} =>
        /\ (snap.BlockMask = NilMask \/ snap.BlockSize = 0) =>
               (stage = "refused" /\ restored = NilPool)
        /\ (phase = "ready" /\ newErr = NoErr) => stage = "restored"

\* C16: an Allocate that fails with PoolExhausted leaves every block (bitmap
\* and freeCount), the set of blocks and nextBlockIndex unchanged; a Release of
\* a held address right after it succeeds, and the Allocate right after that
\* Release returns an address.
C16_ExhaustionContinuable ==
    [][/\ (AllocateStep /\ last'.err = PoolExhausted) =>
              /\ pool'.blocks = pool.blocks
              /\ pool'.nextBlockIndex = pool.nextBlockIndex
              /\ held' = held
       /\ (ReleaseStep /\ last.op = "Allocate" /\ last.err = PoolExhausted
                       /\ last'.arg \in held) =>
              last'.err = NoErr
       /\ (AllocateStep /\ prev.op = "Allocate" /\ prev.err = PoolExhausted
                        /\ last.op = "Release"
                        /\ (last.err = NoErr \/ last.arg \in held)) =>
              last'.err = NoErr]_vars

---------------------------------------------------------------------------
(* Properties of blocks *)

\* the offsets whose bit is set in the bitmap words of block b
SetOffsets(b) ==
    {i \in 0 .. (Len(b.used) * WordBits - 1) :
        (b.used[(i \div WordBits) + 1] \div (2 ^ (i % WordBits))) % 2 = 1}

\* freeCount = capacity - popcount(bitmap), and no bit at or above capacity set
BlockConsistent(b) ==
    /\ b.freeCount = b.size - Cardinality(SetOffsets(b))
    /\ \A i \in SetOffsets(b) : i < b.size

\* C17: in every reachable state every block of the pool has freeCount equal
\* to its capacity minus the number of set bits, and no bit at an offset at or
\* above the capacity set; the same holds for every block of a pool restored
\* from a snapshot taken by Snapshot(), also after calls on the restored pool.
C17_FreeCountInvariant ==
    /\ \A bi \in DOMAIN pool.blocks : BlockConsistent(pool.blocks[bi])
    /\ \A bi \in DOMAIN restored.blocks : BlockConsistent(restored.blocks[bi])

\* C17 witness: the pool was restored from a snapshot taken after a release,
\* holds a partly used block whose capacity is smaller than a bitmap word,
\* the last of at least two calls on it was a Release that failed with
\* ErrNotAllocated, and the source pool has a full block
C17_Witness ==
    /\ stage = "restored"
    /\ released
    /\ rops >= 2
    /\ lastR.op = "Release"
    /\ lastR.err = ErrNotAllocated
    /\ \E bi \in DOMAIN restored.blocks :
           /\ restored.blocks[bi].size = 2
           /\ restored.blocks[bi].freeCount = 1
    /\ \E bi \in DOMAIN pool.blocks : pool.blocks[bi].freeCount = 0

\* the step is a call of allocBit / of releaseBit on the block
AllocBitStep == bops' = bops + 1 /\ lastB'.op = "allocBit"
ReleaseBitStep == bops' = bops + 1 /\ lastB'.op = "releaseBit"

\* the offsets below the capacity of b whose bit is not set
FreeOffsets(b) == {i \in 0 .. (b.size - 1) : i \notin SetOffsets(b)}

\* C18: allocBit returns the smallest offset below the capacity whose bit is
\* unset, sets exactly that bit and decrements freeCount by one; it fails with
\* ErrBlockFull and changes nothing exactly when every offset below the
\* capacity is set, whatever the capacity (a multiple of the word size or not).
C18_AllocBitLowestFree ==
    [][AllocBitStep =>
           IF FreeOffsets(block) # {}
           THEN /\ lastB'.err = NoErr
                /\ lastB'.idx \in FreeOffsets(block)
                /\ \A i \in FreeOffsets(block) : lastB'.idx <= i
                /\ SetOffsets(block') = SetOffsets(block) \cup {lastB'.idx}
                /\ block'.freeCount = block.freeCount - 1
                /\ Len(block'.used) = Len(block.used)
                /\ block'.size = block.size
                /\ block'.prefix = block.prefix
           ELSE /\ lastB'.err = ErrBlockFull
                /\ block' = block]_vars

\* C18 witness: a block of two bitmap words whose capacity is not a multiple
\* of the word size has handed out every offset and then reported ErrBlockFull
C18_Witness ==
    /\ lastB.op = "allocBit"
    /\ lastB.err = ErrBlockFull
    /\ Len(block.used) = 2
    /\ block.size % WordBits # 0
    /\ SetOffsets(block) = 0 .. (block.size - 1)
    /\ block.freeCount = 0

\* C19: releaseBit(idx) fails with ErrOutOfRange when idx is at or above the
\* capacity and with ErrNotAllocated when the bit of idx is not set, leaving
\* bitmap and freeCount unchanged in both cases; otherwise it clears exactly
\* that bit and increments freeCount by one.
C19_ReleaseBit ==
    [][ReleaseBitStep =>
           IF lastB'.arg >= block.size
           THEN lastB'.err = ErrOutOfRange /\ block' = block
           ELSE IF lastB'.arg \notin SetOffsets(block)
           THEN lastB'.err = ErrNotAllocated /\ block' = block
           ELSE /\ lastB'.err = NoErr
                /\ SetOffsets(block') = SetOffsets(block) \ {lastB'.arg}
                /\ block'.freeCount = block.freeCount + 1
                /\ Len(block'.used) = Len(block.used)
                /\ block'.size = block.size
                /\ block'.prefix = block.prefix]_vars

\* C19 witness: on a block with several offsets in use, of a capacity that is
\* not a multiple of the word size, releaseBit of the offset equal to the
\* capacity has failed with ErrOutOfRange
C19_Witness ==
    /\ lastB.op = "releaseBit"
    /\ lastB.err = ErrOutOfRange
    /\ lastB.arg = block.size
    /\ block.size % WordBits # 0
    /\ Cardinality(SetOffsets(block)) >= 3
    /\ block.freeCount >= 1
    /\ 0 \notin SetOffsets(block)

\* C20: bitToIP(i) is the base address plus i as a sum over the whole address
\* width, ipToBit of that address is i again for every offset i below the
\* capacity, and ipToBit fails with ErrOutOfRange for every address below the
\* base address and every address at or above base address + capacity, whatever
\* the low words of the two addresses are; for the addresses in between it
\* returns their distance from the base address.
C20_OffsetAddressRoundTrip ==
    [][/\ (lastB'.op = "bitToIP" /\ lastB'.arg < block.size) =>
              lastB'.ip = (block.prefix.IP + lastB'.arg) % AddrMod
       /\ (lastB'.op = "ipToBit" /\ lastB.op = "bitToIP" /\ lastB.arg < block.size
                                 /\ lastB'.arg = lastB.ip) =>
              (lastB'.err = NoErr /\ lastB'.idx = lastB.arg)
       /\ (lastB'.op = "ipToBit" /\ (\/ lastB'.arg < block.prefix.IP
                                     \/ lastB'.arg >= block.prefix.IP + block.size)) =>
              lastB'.err = ErrOutOfRange
       /\ (lastB'.op = "ipToBit" /\ lastB'.arg >= block.prefix.IP
                                 /\ lastB'.arg < block.prefix.IP + block.size) =>
              (lastB'.err = NoErr /\ lastB'.idx = lastB'.arg - block.prefix.IP)]_vars

\* C20 witness: on a partly used block whose addresses run over a word
\* boundary, ipToBit has returned an offset for an address whose high word is
\* not the high word of the base address
C20_Witness ==
    /\ lastB.op = "ipToBit"
    /\ lastB.err = NoErr
    /\ lastB.idx >= 3
    /\ lastB.arg = block.prefix.IP + lastB.idx
    /\ fromIP(lastB.arg).Hi # fromIP(block.prefix.IP).Hi
    /\ fromIP(lastB.arg).Lo < fromIP(block.prefix.IP).Lo
    /\ bops >= 2
    /\ block.freeCount < block.size

---------------------------------------------------------------------------
(* Properties of the free list and of block creation *)

\* the lowest address of block b whose bit is not set
LowestFreeAddress(b) ==
    b.prefix.IP + (CHOOSE i \in FreeOffsets(b) : \A j \in FreeOffsets(b) : i <= j)

\* C21: the Allocate call right after a successful Release(a) returns the
\* lowest free address of a's block, whatever free capacity other blocks have
\* and whether or not blocks remain to be created; it returns a itself when
\* a's block was full before the release.
C21_MostRecentBlockFirst ==
    [][(AllocateStep /\ last.op = "Release" /\ last.err = NoErr) =>
           LET b == pool.blocks[BlockIndexOf(pool, last.arg)]
           IN  /\ last'.err = NoErr
               /\ last'.ip = LowestFreeAddress(b)
               /\ (b.freeCount = 1) => last'.ip = last.arg]_vars

\* C21 witness: right after a Release, Allocate has handed out an address
\* again, from a block other than block 0, while block 0 has a free offset and
\* blocks remain to be created
C21_Witness ==
    /\ last.op = "Allocate"
    /\ last.err = NoErr
    /\ prev = NoCall
    /\ ops >= 2
    /\ nAllocOK > Cardinality(returned)
    /\ BlockIndexOf(pool, last.ip) >= 1
    /\ pool.blocks[0].freeCount > 0
    /\ pool.nextBlockIndex < pool.maxBlocks

\* the positions of free list fl of pool p whose block has a free offset
LivePositions(p) ==
    {k \in 1 .. Len(p.freeList) : FreeOffsets(p.blocks[p.freeList[k]]) # {}}

\* <<bi>> when block bi of pool p has a free offset left, else the empty list
PushedIfFree(p, bi) == IF p.blocks[bi].freeCount > 0 THEN <<bi>> ELSE <<>>

\* C22: Allocate removes the free-list entries it pops whose block is full and
\* changes no bitmap for them; it allocates from the last entry whose block has
\* a free offset, keeping the entries before it, and pushes that index back iff
\* the block's freeCount is still > 0; when no entry yields an address it
\* creates a block, or fails with PoolExhausted when nextBlockIndex >= maxBlocks.
C22_StaleEntries ==
    [][AllocateStep =>
           IF LivePositions(pool) # {}
           THEN LET k == CHOOSE k \in LivePositions(pool) :
                             \A j \in LivePositions(pool) : j <= k
                    bi == pool.freeList[k]
                IN  /\ last'.err = NoErr
                    /\ last'.ip = LowestFreeAddress(pool.blocks[bi])
                    /\ last'.iters = Len(pool.freeList) - k + 1
                    /\ DOMAIN pool'.blocks = DOMAIN pool.blocks
                    /\ \A j \in DOMAIN pool.blocks \ {bi} : pool'.blocks[j] = pool.blocks[j]
                    /\ pool'.freeList = SubSeq(pool.freeList, 1, k - 1) \o PushedIfFree(pool', bi)
                    /\ pool'.nextBlockIndex = pool.nextBlockIndex
           ELSE /\ last'.iters = Len(pool.freeList)
                /\ \A j \in DOMAIN pool.blocks : pool'.blocks[j] = pool.blocks[j]
                /\ IF pool.nextBlockIndex >= pool.maxBlocks
                   THEN /\ last'.err = PoolExhausted
                        /\ pool'.blocks = pool.blocks
                        /\ pool'.freeList = <<>>
                        /\ pool'.nextBlockIndex = pool.nextBlockIndex
                   ELSE /\ last'.err = NoErr
                        /\ DOMAIN pool'.blocks = DOMAIN pool.blocks \cup {pool.nextBlockIndex}
                        /\ pool'.freeList = PushedIfFree(pool', pool.nextBlockIndex)]_vars

\* C22 witness: an Allocate call has dropped a stale entry and then handed out
\* an address from an older entry, whose block became full and was not pushed
\* back
C22_Witness ==
    /\ last.op = "Allocate"
    /\ last.err = NoErr
    /\ last.iters >= 2
    /\ pool.blocks[BlockIndexOf(pool, last.ip)].freeCount = 0
    /\ Cardinality(DOMAIN pool.blocks) >= 2

\* C22 also happens this way: the only entry was stale and the call ended with
\* PoolExhausted
StaleThenExhausted ==
    /\ last.op = "Allocate"
    /\ last.err = PoolExhausted
    /\ last.iters >= 1

\* C23: when the free list yields no address and nextBlockIndex < maxBlocks,
\* Allocate creates exactly one block, with index nextBlockIndex and base
\* networkAddress + (nextBlockIndex << hostBits), sets offset 0 in it and
\* nothing else, returns that base, pushes the index iff the block still has a
\* free offset, and increments nextBlockIndex by one.
C23_NewBlock ==
    [][(AllocateStep /\ LivePositions(pool) = {} /\ pool.nextBlockIndex < pool.maxBlocks) =>
           LET n == pool.nextBlockIndex
               base == toIP(pool.networkAddr) + n * (2 ^ pool.hostBits)
           IN  /\ n \notin DOMAIN pool.blocks
               /\ DOMAIN pool'.blocks = DOMAIN pool.blocks \cup {n}
               /\ \A j \in DOMAIN pool.blocks : pool'.blocks[j] = pool.blocks[j]
               /\ pool'.blocks[n].prefix.IP = base
               /\ SetOffsets(pool'.blocks[n]) = {0}
               /\ last'.err = NoErr
               /\ last'.ip = base
               /\ pool'.freeList = IF FreeOffsets(pool'.blocks[n]) # {} THEN <<n>> ELSE <<>>
               /\ pool'.nextBlockIndex = n + 1]_vars

\* C24: in every reachable state the existing block indices are exactly
\* 0 .. nextBlockIndex - 1 and nextBlockIndex is at most maxBlocks; no step
\* decreases nextBlockIndex or removes a block.
C24_BlockIndexRange ==
    /\ [](/\ DOMAIN pool.blocks = 0 .. (pool.nextBlockIndex - 1)
          /\ pool.nextBlockIndex <= pool.maxBlocks)
    /\ [][/\ pool'.nextBlockIndex >= pool.nextBlockIndex
          /\ DOMAIN pool.blocks \subseteq DOMAIN pool'.blocks]_vars

\* C24 witness: every block of a pool of at least two blocks exists, an
\* address has been released and the last call was an Allocate after it
C24_Witness ==
    /\ phase = "ready"
    /\ pool.maxBlocks >= 2
    /\ pool.nextBlockIndex = pool.maxBlocks
    /\ \E a \in returned : a \notin held
    /\ last.op = "Allocate"
    /\ ops >= 5

\* C25: every successful Release appends the index of the address's block to
\* freeList, whether or not the list already holds that index, and keeps the
\* entries it had; so freeList can hold one index several times and can be
\* longer than the number of existing blocks (C25_Witness).
C25_ReleaseAppends ==
    [][(ReleaseStep /\ last'.err = NoErr) =>
           pool'.freeList = Append(pool.freeList, BlockIndexOf(pool, last'.arg))]_vars

\* C25 witness: after a successful Release the free list holds the released
\* address's block index more than once and is longer than the number of
\* existing blocks and than maxBlocks
C25_Witness ==
    /\ last.op = "Release"
    /\ last.err = NoErr
    /\ \E j, k \in 1 .. Len(pool.freeList) :
           /\ j # k
           /\ pool.freeList[j] = pool.freeList[k]
           /\ pool.freeList[k] = BlockIndexOf(pool, last.arg)
    /\ Len(pool.freeList) > Cardinality(DOMAIN pool.blocks)
    /\ Len(pool.freeList) > pool.maxBlocks

\* pool r has the configuration, counters, free list, block indices, block
\* bases and bitmaps of pool p, and each of its blocks has freeCount = capacity
\* minus the number of set bits = the freeCount of p's block
SamePoolContents(r, p) ==
    /\ r.blockMask = p.blockMask
    /\ r.networkAddr = p.networkAddr
    /\ r.hostBits = p.hostBits
    /\ r.blockSize = p.blockSize
    /\ r.nextBlockIndex = p.nextBlockIndex
    /\ r.maxBlocks = p.maxBlocks
    /\ r.freeList = p.freeList
    /\ DOMAIN r.blocks = DOMAIN p.blocks
    /\ \A bi \in DOMAIN r.blocks :
           /\ r.blocks[bi].prefix.IP = p.blocks[bi].prefix.IP
           /\ r.blocks[bi].used = p.blocks[bi].used
           /\ r.blocks[bi].freeCount = r.blocks[bi].size - Cardinality(SetOffsets(r.blocks[bi]))
           /\ r.blocks[bi].freeCount = p.blocks[bi].freeCount

\* C26: NewPoolFromSnapshot, given a snapshot that Snapshot() produced, yields
\* a pool whose scalars, nextBlockIndex, maxBlocks, freeList, block indices,
\* block bases and bitmaps equal those of the source pool at snapshot time, with
\* every freeCount = capacity minus set bits = the source's freeCount.
C26_RestoredEqualsSource ==
    (stage \in {"restored", "refused"} /\ rops = 0) =>
        /\ stage = "restored"
        /\ SamePoolContents(restored, atSnap)

\* C27: the pool's blockMask, the mask of every created block and the
\* BlockMask of every snapshot are the mask of the block prefix length
\* (blockPrefix leading one-bits).
C27_BlockPrefixMask ==
    phase = "ready" =>
        LET m == CIDRMask(cfg.blockPrefix, ipv6BitLen)
        IN  /\ pool.blockMask = m
            /\ \A bi \in DOMAIN pool.blocks : pool.blocks[bi].prefix.Mask = m
            /\ stage # "none" => snap.BlockMask = m

\* C30: a Release of an address that is not currently held returns an error
\* and changes nothing of the pool: blocks, bitmaps, freeCounts, freeList and
\* nextBlockIndex stay as they were.
C30_ReleaseNotHeld ==
    [][(ReleaseStep /\ last'.arg \notin held) =>
           /\ last'.err # NoErr
           /\ pool' = pool]_vars

\* C30 witness: the last call was a refused Release of an address Allocate
\* never returned, which lies beyond the pool's range while its truncated
\* block index is that of an existing block that has a held address and a
\* free-list entry
C30_Witness ==
    /\ last.op = "Release"
    /\ last.err # NoErr
    /\ last.arg \notin returned
    /\ last.arg >= toIP(pool.networkAddr) + pool.maxBlocks * pool.blockSize
    /\ releaseIndex(pool, last.arg) \in DOMAIN pool.blocks
    /\ pool.blocks[releaseIndex(pool, last.arg)].freeCount > 0
    /\ \E a \in held : releaseIndex(pool, a) = releaseIndex(pool, last.arg)
    /\ Len(pool.freeList) > 0

\* C30 also happens these ways: the refused address lies below the network, or
\* inside an existing block and was never handed out, or was released before
ReleaseBelowNetwork ==
    /\ last.op = "Release"
    /\ last.err # NoErr
    /\ last.arg < toIP(pool.networkAddr)
    /\ held # {}

ReleaseNeverAllocated ==
    /\ last.op = "Release"
    /\ last.err = ErrNotAllocated
    /\ last.arg \notin returned
    /\ held # {}

ReleaseTwice ==
    /\ last.op = "Release"
    /\ last.err = ErrNotAllocated
    /\ last.arg \in returned \ held

\* caller c is inside the body of a call, between Lock and Unlock
InBody(c) == pc[c] \notin {"idle", "wait"}

LoopPassed ==
    \E c \in Callers : loc[c].iters >= 1 /\ pc[c] = "unlock" /\ loc[c].err = NoErr

ExhaustedReturn ==
    \E c \in Callers : pc[c] = "unlock" /\ loc[c].err = PoolExhausted

SnapshotWhileWaiting ==
    \E c, d \in Callers : pc[c] = "sunlock" /\ pc[d] = "wait"

\* the offsets below the block size whose bit is clear in the bitmap words
\* that snapshot s holds for block bi
CapturedFreeOffsets(s, bi) ==
    {i \in 0 .. (s.BlockSize - 1) : i \notin SetOffsets([used |-> s.Blocks[bi]])}

\* C29: a Snapshot taken while other callers run Allocate and Release holds
\* the pool as it was between whole operations: it is the snapshot of the pool
\* the call found when it took the lock, its block indices are
\* 0 .. NextBlockIndex - 1, every FreeList index has a captured block, and
\* every captured block with a free offset has its index in FreeList.
C29_SnapshotBetweenOperations ==
    /\ \A c \in Callers :
           pc[c] = "sunlock" => (snap = Snapshot(loc[c].entry) /\ pool = loc[c].entry)
    /\ snap # NilSnapshot =>
           /\ DOMAIN snap.Blocks = 0 .. (snap.NextBlockIndex - 1)
           /\ \A k \in 1 .. Len(snap.FreeList) : snap.FreeList[k] \in DOMAIN snap.Blocks
           /\ \A bi \in DOMAIN snap.Blocks :
                  CapturedFreeOffsets(snap, bi) # {} =>
                      \E k \in 1 .. Len(snap.FreeList) : snap.FreeList[k] = bi

\* C29 witness: a Snapshot call has built its snapshot, with a block that has
\* a used and a free offset, while the other caller has called Release of a
\* held address and waits for the lock
C29_Witness ==
    \E c, d \in Callers :
        /\ pc[c] = "sunlock"
        /\ pc[d] = "wait"
        /\ loc[d].op = "Release"
        /\ \E k \in 1 .. Len(got[c]) : got[c][k] = loc[d].arg
        /\ \E bi \in DOMAIN snap.Blocks :
               /\ CapturedFreeOffsets(snap, bi) # {}
               /\ SetOffsets([used |-> snap.Blocks[bi]]) # {}
        /\ Len(snap.FreeList) >= 1

\* the addresses of the configured network
PoolAddresses ==
    {ConfiguredNetwork + i : i \in 0 .. ((2 ^ (ipv6BitLen - cfg.netPrefixLen)) - 1)}

\* every block of pool p that has a free offset has its index in p.freeList
FreeBlocksListed(p) ==
    \A bi \in DOMAIN p.blocks :
        FreeOffsets(p.blocks[bi]) # {} =>
            \E k \in 1 .. Len(p.freeList) : p.freeList[k] = bi

\* C31: in every reachable state every block with a free offset has its index
\* in freeList; an Allocate that creates a block finds every existing block
\* full; an Allocate that fails with PoolExhausted finds all maxBlocks blocks
\* created and every address of the pool held.
C31_FreeBlocksListed ==
    /\ [](phase = "ready" => FreeBlocksListed(pool))
    /\ [][AllocateStep =>
              /\ (pool'.nextBlockIndex # pool.nextBlockIndex) =>
                     \A bi \in DOMAIN pool.blocks : FreeOffsets(pool.blocks[bi]) = {}
              /\ (last'.err = PoolExhausted) =>
                     /\ pool.nextBlockIndex = pool.maxBlocks
                     /\ Cardinality(DOMAIN pool.blocks) = pool.maxBlocks
                     /\ held = PoolAddresses]_vars

\* every index stored in the free list of pool p is the index of a block of p
FreeListEntriesExist(p) ==
    \A k \in 1 .. Len(p.freeList) :
        /\ p.freeList[k] \in DOMAIN p.blocks
        /\ p.freeList[k] < p.nextBlockIndex

\* C32: in every state reached through NewPool, Allocate, Release and the
\* restore of a snapshot that Snapshot() produced, every index in freeList, of
\* the source pool and of the restored pool, is the index of an existing block
\* below nextBlockIndex, and no Allocate has dereferenced a missing block.
C32_FreeListEntriesExist ==
    /\ phase = "ready" => FreeListEntriesExist(pool)
    /\ stage = "restored" => /\ FreeListEntriesExist(restored)
                             /\ FreeListEntriesExist(atSnap)
    /\ last.err # Panic
    /\ lastR.err # Panic
    /\ lastS.err # Panic

\* a restored pool has just served an Allocate from an index popped off the
\* free list it was restored with (no block was created)
C32_Witness ==
    /\ stage = "restored"
    /\ lastR.op = "Allocate"
    /\ lastR.err = NoErr
    /\ Len(snap.FreeList) > 0
    /\ restored.nextBlockIndex = snap.NextBlockIndex

====
